---- MODULE Spec2Model ----
(***************************************************************************)
(* A model of two WhiteboxTools raster tools:                              *)
(*   CostAllocation::run        (gis_analysis/cost_allocation.rs)          *)
(*   BreachSingleCellPits::run  (hydro_analysis/breach_pits.rs)            *)
(* A raster is a function from <<row, col>> to a number.  One variable set *)
(* serves both tools; a specification runs one of them.                    *)
(***************************************************************************)
EXTENDS Integers, Sequences, FiniteSets, TLC

VARIABLES
    pc,           \* position of the running tool in its run()
    rows,         \* pntr.configs.rows / input.configs.rows
    columns,      \* pntr.configs.columns / input.configs.columns
    src_rows,     \* pourpts.configs.rows
    src_cols,     \* pourpts.configs.columns
    pntr,         \* the back-link raster
    pourpts,      \* the source raster
    input,        \* the DEM read by BreachSingleCellPits
    flow_dir,     \* Array2D<i8> of decoded directions; <<>> before it is created
    output,       \* the output raster; <<>> before it is created
    row, col,     \* the scan loops' indices
    x, y,         \* the walk's current cell
    outlet_id,    \* the label found by the discovery walk
    written,      \* output.write() has succeeded
    run_no,       \* 1 for the first run, 2 for the run on the first run's output
    first_output  \* the output of the first run, kept for comparison

vars == <<pc, rows, columns, src_rows, src_cols, pntr, pourpts, input, flow_dir,
          output, row, col, x, y, outlet_id, written, run_no, first_output>>

----------------------------------------------------------------------------
(* Bounds of the model *)

\* rows and columns of the CostAllocation grids
CARows == 2
CACols == 2
\* at most this many cells of the source raster carry a positive label
MaxSources == 2
\* rows and columns of the general BreachSingleCellPits grids
BPRows == 3
BPCols == 3
\* at most this many cells of a general DEM hold nodata
MaxNodata == 1

----------------------------------------------------------------------------
(* Values *)

\* pourpts.configs.nodata (and the DEM's nodata): the usual Whitebox nodata
Nodata == -32768
\* pntr.configs.nodata
PntrNodata == -32768
\* f64::MIN, the unresolved sentinel
LowValue == -999999
\* the fill value and nodata of flow_dir
FlowDirInit == -2

GridCells(r, c) == (0 .. r - 1) \X (0 .. c - 1)

InGrid(g, r, c) == <<r, c>> \in DOMAIN g

\* Raster's Index<(isize, isize)>: a read outside the extent gives nodata
RasterGet(g, r, c) == IF InGrid(g, r, c) THEN g[<<r, c>>] ELSE Nodata

\* Raster's IndexMut<(isize, isize)>: a write outside the extent changes no cell
RasterSet(g, r, c, v) == IF InGrid(g, r, c) THEN [g EXCEPT ![<<r, c>>] = v] ELSE g

\* Array2D's Index<(isize, isize)>: a read outside the extent gives its nodata
Array2DGet(g, r, c) == IF InGrid(g, r, c) THEN g[<<r, c>>] ELSE FlowDirInit

----------------------------------------------------------------------------
(* CostAllocation *)

d_x == <<1, 1, 1, 0, -1, -1, -1, 0>>
d_y == <<-1, 0, 1, 1, 1, 0, -1, -1>>

\* pntr_matches: [i8; 129], zero except at the eight pointer values
pntr_matches(k) ==
    CASE k = 1 -> 0
      [] k = 2 -> 1
      [] k = 4 -> 2
      [] k = 8 -> 3
      [] k = 16 -> 4
      [] k = 32 -> 5
      [] k = 64 -> 6
      [] k = 128 -> 7
      [] OTHER -> 0

PntrMatchesLen == 129

\* the index z as usize is outside pntr_matches: the run panics
DecodePanics(z) == z # PntrNodata /\ z > 0 /\ z >= PntrMatchesLen

\* the value stored in flow_dir for a pointer value z (which does not panic)
DecodeDir(z) ==
    IF z # PntrNodata
      THEN IF z > 0 THEN pntr_matches(z) ELSE -1
      ELSE FlowDirInit

\* the size check with the comparison of the columns left out
DimsMismatchRowsOnly == src_rows # rows

\* the size check of the two input rasters
DimsMismatch == src_rows # rows \/ src_cols # columns

\* the value of output at a cell after the seeding loop
SeedValue(p, s) ==
    IF s # Nodata /\ s > 0 THEN s
    ELSE IF p # PntrNodata THEN LowValue ELSE Nodata

SeedOutput(P, S) ==
    [c \in GridCells(rows, columns) |-> SeedValue(P[c], RasterGet(S, c[1], c[2]))]

SeedFlowDir(P) == [c \in GridCells(rows, columns) |-> DecodeDir(P[c])]

\* the next position of the scan loops after (r, c)
NextRow(r, c) == IF c + 1 < columns THEN r ELSE r + 1
NextCol(r, c) == IF c + 1 < columns THEN c + 1 ELSE 0

CAInputs == <<rows, columns, src_rows, src_cols, pntr, input>>

\* Raster::new twice, then the size check
CheckDims ==
    /\ pc = "open"
    /\ pc' = IF DimsMismatch THEN "error" ELSE "seed"
    /\ UNCHANGED <<CAInputs, pourpts, flow_dir, output, row, col, x, y, outlet_id,
                   written, run_no, first_output>>

\* creation of flow_dir and output, and the seeding loop
Seed ==
    /\ pc = "seed"
    /\ IF \E c \in GridCells(rows, columns) : DecodePanics(pntr[c])
         THEN /\ pc' = "panic"
              /\ UNCHANGED <<flow_dir, output, row, col>>
         ELSE /\ pc' = "scan"
              /\ flow_dir' = SeedFlowDir(pntr)
              /\ output' = SeedOutput(pntr, pourpts)
              /\ row' = 0
              /\ col' = 0
    /\ UNCHANGED <<CAInputs, pourpts, x, y, outlet_id, written, run_no, first_output>>

\* a walk that starts with the unresolved sentinel as its outlet
InitialOutletLow == LowValue

\* the outlet a walk starts with
InitialOutlet == Nodata

\* one pass of the body of the propagation loops, up to the first walk
ScanCell ==
    /\ pc = "scan"
    /\ row < rows
    /\ IF output[<<row, col>>] = LowValue
         THEN /\ pc' = "discover"
              /\ x' = col
              /\ y' = row
              /\ outlet_id' = InitialOutlet
              /\ UNCHANGED <<row, col>>
         ELSE /\ row' = NextRow(row, col)
              /\ col' = NextCol(row, col)
              /\ UNCHANGED <<pc, x, y, outlet_id>>
    /\ UNCHANGED <<CAInputs, pourpts, flow_dir, output, written, run_no, first_output>>

\* a compression walk that stores nodata in the cells after the first
CompressValueNodata == Nodata

\* the value the compression walk stores in each cell it visits
CompressValue == outlet_id

\* one iteration of the discovery walk; on its last iteration also the
\* three assignments before the compression walk
DiscoverStep ==
    /\ pc = "discover"
    /\ LET dir == Array2DGet(flow_dir, y, x)
           nx == IF dir >= 0 THEN x + d_x[dir + 1] ELSE x
           ny == IF dir >= 0 THEN y + d_y[dir + 1] ELSE y
           z == RasterGet(output, ny, nx)
           flag == dir < 0 \/ z # LowValue
           oid == IF dir >= 0 /\ z # LowValue THEN z ELSE outlet_id
       IN  IF flag
             THEN /\ pc' = "compress"
                  /\ outlet_id' = oid
                  /\ x' = col
                  /\ y' = row
                  /\ output' = RasterSet(output, row, col, oid)
             ELSE /\ x' = nx
                  /\ y' = ny
                  /\ UNCHANGED <<pc, outlet_id, output>>
    /\ UNCHANGED <<CAInputs, pourpts, flow_dir, row, col, written, run_no, first_output>>

\* one iteration of the compression walk
CompressStep ==
    /\ pc = "compress"
    /\ LET dir == Array2DGet(flow_dir, y, x)
           nx == IF dir >= 0 THEN x + d_x[dir + 1] ELSE x
           ny == IF dir >= 0 THEN y + d_y[dir + 1] ELSE y
           flag == dir < 0 \/ RasterGet(output, ny, nx) # LowValue
       IN  /\ x' = nx
           /\ y' = ny
           /\ output' = RasterSet(output, ny, nx, CompressValue)
           /\ IF flag
                THEN /\ pc' = "scan"
                     /\ row' = NextRow(row, col)
                     /\ col' = NextCol(row, col)
                ELSE UNCHANGED <<pc, row, col>>
    /\ UNCHANGED <<CAInputs, pourpts, flow_dir, outlet_id, written, run_no, first_output>>

\* after the loops: metadata, output.write(), Ok(())
Finish ==
    /\ pc = "scan"
    /\ row >= rows
    /\ pc' = "done"
    /\ written' = TRUE
    /\ UNCHANGED <<CAInputs, pourpts, flow_dir, output, row, col, x, y, outlet_id,
                   run_no, first_output>>

\* the tool is run again with its own output as the source raster
Rerun ==
    /\ pc = "done"
    /\ run_no = 1
    /\ run_no' = 2
    /\ first_output' = output
    /\ pourpts' = output
    /\ pc' = "open"
    /\ flow_dir' = <<>>
    /\ output' = <<>>
    /\ written' = FALSE
    /\ UNCHANGED <<CAInputs, row, col, x, y, outlet_id>>

NextCA ==
    \/ CheckDims
    \/ Seed
    \/ ScanCell
    \/ DiscoverStep
    \/ CompressStep
    \/ Finish
    \/ Rerun

\* the source rasters with at most MaxSources positive cells
SourceRasters(r, c, vals) ==
    {S \in [GridCells(r, c) -> vals] :
        Cardinality({k \in GridCells(r, c) : S[k] > 0}) <= MaxSources}

InitCommon ==
    /\ pc = "open"
    /\ input = <<>>
    /\ flow_dir = <<>>
    /\ output = <<>>
    /\ row = 0
    /\ col = 0
    /\ x = 0
    /\ y = 0
    /\ outlet_id = Nodata
    /\ written = FALSE
    /\ run_no = 1
    /\ first_output = <<>>

\* equal-sized rasters; back-links E, S, W, N, a terminus (0) and nodata
InitCA ==
    /\ InitCommon
    /\ rows = CARows
    /\ columns = CACols
    /\ src_rows = rows
    /\ src_cols = columns
    /\ pntr \in [GridCells(CARows, CACols) -> {PntrNodata, 0, 2, 8, 32, 128}]
    /\ pourpts \in SourceRasters(CARows, CACols, {0, 1, 2})

SpecCA == InitCA /\ [][NextCA]_vars

\* the walks are loops of one sequential program: a step that can be taken is taken
FairSpecCA == SpecCA /\ WF_vars(NextCA)

\* equal-sized rasters whose back-links include values outside the eight
\* pointer values: 3 and 5 (inside the table), 129 (past its end), -1
InitDecode ==
    /\ InitCommon
    /\ rows = CARows
    /\ columns = CACols
    /\ src_rows = rows
    /\ src_cols = columns
    /\ pntr \in [GridCells(CARows, CACols) -> {PntrNodata, -1, 0, 3, 5, 32, 129}]
    /\ pourpts \in [GridCells(CARows, CACols) -> {0, 1}]

SpecDecode == InitDecode /\ [][NextCA]_vars

\* source rasters one row or column smaller or larger than the back-link
\* raster, or of its size; each holds one value, 0 or the label 1
InitDims ==
    /\ InitCommon
    /\ rows = CARows
    /\ columns = CACols
    /\ src_rows \in CARows - 1 .. CARows + 1
    /\ src_cols \in CACols - 1 .. CACols + 1
    /\ pntr \in [GridCells(CARows, CACols) -> {0, 8}]
    /\ \E v \in {0, 1} : pourpts = [k \in GridCells(src_rows, src_cols) |-> v]

SpecDims == InitDims /\ [][NextCA]_vars

----------------------------------------------------------------------------
(* Properties of CostAllocation *)

Terminated == pc \in {"done", "error", "panic"}

\* the output grid right after the seeding loop, and the decoded directions
Seeded == SeedOutput(pntr, pourpts)
Decoded == SeedFlowDir(pntr)

\* the value of the first cell labelled at seeding on the decoded downstream
\* path of cell <<r, c>>, or LowValue (which labels no cell at seeding) when
\* the path ends (a terminus, the edge of the grid) or runs for n steps before
\* it meets one
RECURSIVE PathLabel(_, _, _)
PathLabel(r, c, n) ==
    IF <<r, c>> \notin GridCells(rows, columns) THEN LowValue
    ELSE IF Seeded[<<r, c>>] # LowValue THEN Seeded[<<r, c>>]
    ELSE IF Decoded[<<r, c>>] < 0 \/ n = 0 THEN LowValue
    ELSE PathLabel(r + d_y[Decoded[<<r, c>>] + 1], c + d_x[Decoded[<<r, c>>] + 1], n - 1)

FirstLabel(k) == PathLabel(k[1], k[2], rows * columns)

SourceLabels == {pourpts[k] : k \in {j \in DOMAIN pourpts : pourpts[j] > 0}}

\* C1: when the propagation loop has finished no cell holds the unresolved
\* sentinel, every cell unresolved after seeding whose downstream path reaches
\* a cell labelled at seeding holds the value of the first such cell, and
\* every output value is a source label or nodata.
C1_LabelConservation ==
    pc = "done" =>
        \A k \in GridCells(rows, columns) :
            /\ output[k] # LowValue
            /\ output[k] \in SourceLabels \cup {Nodata}
            /\ (Seeded[k] = LowValue /\ FirstLabel(k) # LowValue)
                    => output[k] = FirstLabel(k)

\* a finished first run in which a cell two steps upstream of a source labelled
\* 1 got that label although a source labelled 2 lies further down the path
C1_Witness ==
    /\ pc = "done"
    /\ run_no = 1
    /\ \E k \in GridCells(rows, columns) :
          /\ Seeded[k] = LowValue
          /\ Decoded[k] >= 0
          /\ LET n == <<k[1] + d_y[Decoded[k] + 1], k[2] + d_x[Decoded[k] + 1]>>
             IN  /\ n \in GridCells(rows, columns)
                 /\ Seeded[n] = LowValue
                 /\ Decoded[n] >= 0
                 /\ LET m == <<n[1] + d_y[Decoded[n] + 1], n[2] + d_x[Decoded[n] + 1]>>
                    IN  /\ m \in GridCells(rows, columns)
                        /\ Seeded[m] = 1
                        /\ Decoded[m] >= 0
                        /\ LET q == <<m[1] + d_y[Decoded[m] + 1], m[2] + d_x[Decoded[m] + 1]>>
                           IN  q \in GridCells(rows, columns) /\ Seeded[q] = 2
          /\ output[k] = 1

\* C2: every run reaches completion or fails; no walk loops forever.
C2_Terminates == <>Terminated

\* C3: every cell whose back-link is nodata holds nodata in the final output.
C3_NodataPropagates ==
    pc = "done" =>
        \A k \in GridCells(rows, columns) : pntr[k] = PntrNodata => output[k] = Nodata

ValidCodes == {1, 2, 4, 8, 16, 32, 64, 128}

\* C4: a back-link value that is neither nodata nor one of the eight pointer
\* values is decoded to -1, and decoding raises no error.
C4_InvalidCodeUndefined ==
    /\ pc # "panic"
    /\ flow_dir # <<>> =>
          \A k \in GridCells(rows, columns) :
              (pntr[k] # PntrNodata /\ pntr[k] \notin ValidCodes) => flow_dir[k] = -1

\* C8: a run on the output of a completed run, with the same back-link grid,
\* gives that output again.
C8_Idempotent == (pc = "done" /\ run_no = 2) => output = first_output

\* a finished second run whose first output held a propagated label and a
\* resolved nodata that the second run had to resolve again
C8_Witness ==
    /\ pc = "done"
    /\ run_no = 2
    /\ \E k \in GridCells(rows, columns) :
          first_output[k] = Nodata /\ pntr[k] # PntrNodata
    /\ \E k \in GridCells(rows, columns) : first_output[k] = 2 /\ Seeded[k] = 2
    /\ \E k \in GridCells(rows, columns) : output[k] = 1

\* C9: on a size mismatch the run ends with the InvalidInput error, with no
\* direction grid decoded, no output cell seeded and no output written.
C9_DimensionMismatch ==
    ((src_rows # rows \/ src_cols # columns) /\ pc # "open") =>
        /\ pc = "error"
        /\ flow_dir = <<>>
        /\ output = <<>>
        /\ ~written

\* a run stopped by a source raster with fewer columns than the back-link raster
C9_Witness == pc = "error" /\ src_rows = rows /\ src_cols < columns

----------------------------------------------------------------------------
(* BreachSingleCellPits *)
(* Elevations are counted in half units, so that the mean of two input     *)
(* elevations (even numbers) is a whole number.                            *)

dx == <<1, 1, 1, 0, -1, -1, -1, 0>>
dy == <<-1, 0, 1, 1, 1, 0, -1, -1>>
dx2 == <<2, 2, 2, 2, 2, 1, 0, -1, -2, -2, -2, -2, -2, -1, 0, 1>>
dy2 == <<-2, -1, 0, 1, 2, 2, 2, 2, 2, 1, 0, -1, -2, -2, -2, -2>>
breachcell == <<0, 0, 1, 1, 2, 2, 3, 3, 4, 4, 5, 5, 6, 6, 7, 0>>

\* the test zn < z with the nodata test left out
IsLowerAnyValue(zn, z) == zn < z

\* the test made on a first-order and on a second-order neighbour
IsLower(zn, z) == zn < z /\ zn # Nodata

\* the first loop over the eight neighbours: flag stays true
IsPit(r, c) ==
    /\ input[<<r, c>>] # Nodata
    /\ \A i \in 1 .. 8 :
          ~IsLower(RasterGet(input, r + dy[i], c + dx[i]), input[<<r, c>>])

\* a repair that lowers the second-order cell itself
RingCell(r, c, i) == <<r + dy2[i], c + dx2[i]>>

\* the cell written for ring position i (counted from 1) of the pit at (r, c)
BreachTarget(r, c, i) == <<r + dy[breachcell[i] + 1], c + dx[breachcell[i] + 1]>>

\* (z + zn) / 2f64
Mean(z, zn) == (z + zn) \div 2

\* iterations i .. 16 of the loop over the second-order ring of the pit (r, c)
RECURSIVE BreachFrom(_, _, _, _)
BreachFrom(out, r, c, i) ==
    IF i > 16 THEN out
    ELSE LET z == input[<<r, c>>]
             zn == RasterGet(input, r + dy2[i], c + dx2[i])
             t == BreachTarget(r, c, i)
         IN  BreachFrom(IF IsLower(zn, z) THEN RasterSet(out, t[1], t[2], Mean(z, zn))
                                          ELSE out,
                        r, c, i + 1)

BPInputs == <<rows, columns, src_rows, src_cols, pntr, pourpts, input, flow_dir,
              x, y, outlet_id, run_no, first_output>>

\* Raster::initialize_using_file and set_data_from_raster
CopyInput ==
    /\ pc = "bp_open"
    /\ pc' = "bp_scan"
    /\ output' = input
    /\ row' = 0
    /\ col' = 0
    /\ UNCHANGED <<BPInputs, written>>

\* the body of the scan loops for the cell (row, col)
BreachCell ==
    /\ pc = "bp_scan"
    /\ row < rows
    /\ output' = IF IsPit(row, col) THEN BreachFrom(output, row, col, 1) ELSE output
    /\ row' = NextRow(row, col)
    /\ col' = NextCol(row, col)
    /\ UNCHANGED <<BPInputs, pc, written>>

\* after the loops: metadata, output.write(), Ok(())
FinishBP ==
    /\ pc = "bp_scan"
    /\ row >= rows
    /\ pc' = "bp_done"
    /\ written' = TRUE
    /\ UNCHANGED <<BPInputs, output, row, col>>

NextBP ==
    \/ CopyInput
    \/ BreachCell
    \/ FinishBP

InitBPCommon ==
    /\ pc = "bp_open"
    /\ src_rows = 0
    /\ src_cols = 0
    /\ pntr = <<>>
    /\ pourpts = <<>>
    /\ flow_dir = <<>>
    /\ output = <<>>
    /\ row = 0
    /\ col = 0
    /\ x = 0
    /\ y = 0
    /\ outlet_id = Nodata
    /\ written = FALSE
    /\ run_no = 1
    /\ first_output = <<>>

\* every DEM of three elevations with at most MaxNodata nodata cells
InitBP ==
    /\ InitBPCommon
    /\ rows = BPRows
    /\ columns = BPCols
    /\ input \in {D \in [GridCells(BPRows, BPCols) -> {Nodata, 0, 2, 4}] :
                    Cardinality({k \in GridCells(BPRows, BPCols) : D[k] = Nodata})
                        <= MaxNodata}

SpecBP == InitBP /\ [][NextBP]_vars

\* the 5 x 5 plateau of elevation 10 (20 half units) with the centre at 1 and
\* one cell of the centre's second-order ring at 0
Centre == <<2, 2>>

PlateauDEM(i) ==
    [k \in GridCells(5, 5) |->
        IF k = Centre THEN 2
        ELSE IF k = <<2 + dy2[i], 2 + dx2[i]>> THEN 0
        ELSE 20]

InitPlateau ==
    /\ InitBPCommon
    /\ rows = 5
    /\ columns = 5
    /\ \E i \in 1 .. 16 : input = PlateauDEM(i)

SpecPlateau == InitPlateau /\ [][NextBP]_vars

----------------------------------------------------------------------------
(* Properties of BreachSingleCellPits *)

Cells == GridCells(rows, columns)

\* the cell k holds an elevation and no first-order neighbour of it holds a
\* strictly lower one
InputPit(k) ==
    /\ input[k] # Nodata
    /\ \A i \in 1 .. 8 :
          LET n == <<k[1] + dy[i], k[2] + dx[i]>>
          IN  n \in Cells => (input[n] = Nodata \/ input[n] >= input[k])

\* ring position i of cell k holds an elevation strictly lower than k's
RingLower(k, i) ==
    LET n == <<k[1] + dy2[i], k[2] + dx2[i]>>
    IN  n \in Cells /\ input[n] # Nodata /\ input[n] < input[k]

\* the first-order neighbour mapped from ring position i of cell k
RingTarget(k, i) == <<k[1] + dy[breachcell[i] + 1], k[2] + dx[breachcell[i] + 1]>>

Changed(g, h) == {k \in Cells : g[k] # h[k]}

\* C5: the repair of one pit writes at most one cell of the output: the
\* first-order neighbour mapped from the first ring position that is valid
\* and strictly lower.
C5_OneWritePerPit ==
    [][(pc = "bp_scan" /\ row < rows) =>
          /\ Cardinality(Changed(output', output)) <= 1
          /\ \A k \in Changed(output', output) :
                \E i \in 1 .. 16 :
                    /\ RingLower(<<row, col>>, i)
                    /\ \A j \in 1 .. i - 1 : ~RingLower(<<row, col>>, j)
                    /\ k = RingTarget(<<row, col>>, i)]_vars

\* C6: after the scan every input pit with a valid strictly lower cell in its
\* second-order ring has a first-order neighbour whose output elevation is
\* strictly lower than the pit's.
C6_ResolvablePitsRemoved ==
    pc = "bp_done" =>
        \A k \in Cells :
            (InputPit(k) /\ \E i \in 1 .. 16 : RingLower(k, i)) =>
                \E j \in 1 .. 8 :
                    LET n == <<k[1] + dy[j], k[2] + dx[j]>>
                    IN  n \in Cells /\ output[n] # Nodata /\ output[n] < input[k]

\* C7: on the plateau the output differs from the input at exactly one cell,
\* the centre's neighbour on the bearing of the cell of elevation 0, which is
\* set to 0.5 (1 half unit).
C7_PlateauSingleRepair ==
    pc = "bp_done" =>
        \E i \in 1 .. 16 :
            /\ input[<<2 + dy2[i], 2 + dx2[i]>>] = 0
            /\ Changed(output, input) = {RingTarget(Centre, i)}
            /\ output[RingTarget(Centre, i)] = 1

\* C10: the output starts as a copy of the input; a cell of the output
\* differs from the input only if it is the first-order neighbour mapped from
\* a valid, strictly lower ring position of an input pit, and it is never
\* the cell of that pit.
C10_Frame ==
    /\ (pc = "bp_scan" /\ row = 0 /\ col = 0) => output = input
    /\ pc \in {"bp_scan", "bp_done"} =>
          \A k \in Changed(output, input) :
              \E p \in Cells, i \in 1 .. 16 :
                  /\ InputPit(p)
                  /\ RingLower(p, i)
                  /\ RingTarget(p, i) = k
                  /\ k # p

\* a finished scan that lowered a neighbour of one pit and left the cell of
\* another pit, which has no lower second-order cell, as it was
C10_Witness ==
    /\ pc = "bp_done"
    /\ Changed(output, input) # {}
    /\ \E p \in Cells :
          /\ InputPit(p)
          /\ \A i \in 1 .. 16 : ~RingLower(p, i)
          /\ output[p] = input[p]

----------------------------------------------------------------------------
(* BreachSingleCellPits with the cells scanned in the reverse order *)

\* the position before (r, c) in row-major order
PrevRow(r, c) == IF c > 0 THEN r ELSE r - 1
PrevCol(r, c) == IF c > 0 THEN c - 1 ELSE columns - 1

\* the tool's scan is started again on the same DEM, from the last cell
RerunReversed ==
    /\ pc = "bp_done"
    /\ run_no = 1
    /\ run_no' = 2
    /\ first_output' = output
    /\ output' = input
    /\ row' = rows - 1
    /\ col' = columns - 1
    /\ pc' = "bp_rscan"
    /\ written' = FALSE
    /\ UNCHANGED <<rows, columns, src_rows, src_cols, pntr, pourpts, input, flow_dir,
                   x, y, outlet_id>>

\* the body of the scan loops for the cell (row, col), the loops running
\* from the last cell to the first
BreachCellReversed ==
    /\ pc = "bp_rscan"
    /\ row >= 0
    /\ output' = IF IsPit(row, col) THEN BreachFrom(output, row, col, 1) ELSE output
    /\ row' = PrevRow(row, col)
    /\ col' = PrevCol(row, col)
    /\ UNCHANGED <<BPInputs, pc, written>>

FinishReversed ==
    /\ pc = "bp_rscan"
    /\ row < 0
    /\ pc' = "bp_done"
    /\ written' = TRUE
    /\ UNCHANGED <<BPInputs, output, row, col>>

NextBPOrder ==
    \/ CopyInput
    \/ BreachCell
    \/ FinishBP
    \/ RerunReversed
    \/ BreachCellReversed
    \/ FinishReversed

SpecBPOrder == InitBP /\ [][NextBPOrder]_vars

\* C11: the final elevation of every cell is the same whether the pits are
\* processed in row-major order or in the reverse order.
C11_OrderIndependent ==
    (pc = "bp_done" /\ run_no = 2) => output = first_output

----------------------------------------------------------------------------
(* Properties of the walks of CostAllocation *)

\* the discovery walk is at a cell whose decoded direction is negative: its
\* next iteration stops the walk there
AtTerminus == pc = "discover" /\ Array2DGet(flow_dir, y, x) < 0

\* the cells of the output that the step changes
Written == {k \in DOMAIN output : output'[k] # output[k]}

\* C12 as stated: when the discovery walk stops at a cell with a negative
\* direction, the outlet is the value the output held at that cell.
C12_OutletIsTerminusValue ==
    [][AtTerminus => outlet_id' = output[<<y, x>>]]_vars

\* C12 as amended: when the discovery walk stops at a cell with a negative
\* direction, that cell holds the unresolved sentinel and the outlet is
\* nodata; the compression walk then keeps that outlet and stores it in
\* every cell it writes.
C12_TerminusOutletNodata ==
    [][/\ AtTerminus => (output[<<y, x>>] = LowValue /\ outlet_id' = Nodata)
       /\ pc = "compress" =>
             (outlet_id' = outlet_id /\ \A k \in Written : output'[k] = outlet_id)]_vars

\* a discovery walk from (row, col) has just stopped at the next cell, an
\* unresolved terminus, and the compression walk is about to start
C12_Witness ==
    /\ pc = "compress"
    /\ x = col
    /\ y = row
    /\ outlet_id = Nodata
    /\ output[<<row, col>>] = Nodata
    /\ flow_dir[<<row, col>>] >= 0
    /\ LET n == <<row + d_y[flow_dir[<<row, col>>] + 1],
                  col + d_x[flow_dir[<<row, col>>] + 1]>>
       IN  /\ n \in GridCells(rows, columns)
           /\ flow_dir[n] = -1
           /\ output[n] = LowValue

\* what one step of the propagation loop may do to the output
C13_StepOK ==
    /\ \A k \in DOMAIN output : output[k] # LowValue => output'[k] = output[k]
    /\ (pc = "scan" /\ pc' = "discover") => output[<<row, col>>] = LowValue
    /\ (pc = "compress" /\ pc' = "scan")
          => (output' = output /\ outlet_id = RasterGet(output, y', x'))

\* C13: during the propagation loop a cell of the output that holds a value
\* other than the unresolved sentinel keeps it in every step; a walk starts
\* only from a cell that holds the sentinel; and the step on which the
\* compression walk stops stores the outlet in a cell that already holds it,
\* so that step leaves the output as it was.
C13_ResolvedStable ==
    [][(pc \in {"scan", "discover", "compress"}) => C13_StepOK]_vars

\* a compression walk has just stopped on the cell (y, x), which was
\* unresolved after seeding and got its label from an earlier walk; the cell
\* upstream of it that the walk came from now holds the same label
C13_Witness ==
    /\ pc = "scan"
    /\ <<y, x>> \in GridCells(rows, columns)
    /\ Seeded[<<y, x>>] = LowValue
    /\ output[<<y, x>>] > 0
    /\ \E k \in GridCells(rows, columns) :
          /\ Seeded[k] = LowValue
          /\ flow_dir[k] >= 0
          /\ <<k[1] + d_y[flow_dir[k] + 1], k[2] + d_x[flow_dir[k] + 1]>> = <<y, x>>
          /\ output[k] = output[<<y, x>>]

====
